---- MODULE Spec2Model ----
(***************************************************************************)
(* Loan-eligibility example (Integration_testing/app): the business rule   *)
(* is_eligable_for_load of logic.py and the POST /loan_eligibility         *)
(* endpoint of main.py, with its validation boundary (Applicant).          *)
(*                                                                         *)
(* Numbers.  A JSON number and a Python float are modelled as an integer   *)
(* count of hundredths (60000 is 6000000, 49999.99 is 4999999), so that    *)
(* the fractional incomes of the rule's boundary are exact.  A Python int  *)
(* (age) is a plain integer.                                               *)
(***************************************************************************)
EXTENDS Integers, FiniteSets, Sequences, TLC

VARIABLES
    \* loan eligibility (Integration_testing/app)
    rule_in,    \* unit-level call of the rule: its three arguments
    rule_out,   \* its returned Python value, Pending before the call
    req,        \* per worker thread: the request it is serving
    app,        \* module-level state of main.py (the FastAPI app object)
    log,        \* history of rule evaluations: arguments and returned value
    served,     \* number of requests received so far
    \* employee CRUD (crud_app)
    employees,  \* the rows of the employees table
    sessions,   \* the open database sessions, by request number
    creq,       \* per worker thread: the CRUD request it is serving
    cserved,    \* number of CRUD requests received so far
    \* JWT authentication (jwt_authentication)
    now,        \* the clock, in minutes
    issued,     \* history of create_access_tokens: each token and when it was made
    jres,       \* the request being answered by the JWT API and its outcome
    \* custom middlewares (custom_middlewares)
    user_middleware,  \* the app's middleware list, outermost first
    hreq,       \* per connection: the request on its way through the stack
    \* OAuth2 demo (DependencyInjection/user_auth.py)
    oreq,       \* per worker thread: the request it is serving
    \* model serving (ml_model)
    saved_model,  \* the regression model loaded from model.joblib
    mlreq       \* the prediction request being answered and its response

elig_vars == <<rule_in, rule_out, req, app, log, served>>
crud_vars == <<employees, sessions, creq, cserved>>
jwt_vars == <<now, issued, jres>>

mw_vars == <<user_middleware, hreq>>
oauth_vars == <<oreq>>
ml_vars == <<saved_model, mlreq>>

vars == <<elig_vars, crud_vars, jwt_vars, mw_vars, oauth_vars, ml_vars>>

\* the state of the other examples, which an example leaves alone
not_elig == <<crud_vars, jwt_vars, mw_vars, oauth_vars, ml_vars>>
not_crud == <<elig_vars, jwt_vars, mw_vars, oauth_vars, ml_vars>>
not_jwt == <<elig_vars, crud_vars, mw_vars, oauth_vars, ml_vars>>
not_mw == <<elig_vars, crud_vars, jwt_vars, oauth_vars, ml_vars>>
not_oauth == <<elig_vars, crud_vars, jwt_vars, mw_vars, ml_vars>>
not_ml == <<elig_vars, crud_vars, jwt_vars, mw_vars, oauth_vars>>

-----------------------------------------------------------------------------
(* JSON values of a request or response body, and Python values *)

JNum(n) == [t |-> "number", n |-> n, s |-> "", b |-> FALSE]
JStr(s) == [t |-> "string", n |-> 0, s |-> s, b |-> FALSE]
JBool(b) == [t |-> "boolean", n |-> 0, s |-> "", b |-> b]
JNull == [t |-> "null", n |-> 0, s |-> "", b |-> FALSE]
\* a key the JSON object does not have
Missing == [t |-> "missing", n |-> 0, s |-> "", b |-> FALSE]

PyBool(b) == [t |-> "bool", n |-> 0, s |-> "", b |-> b]
PyStr(s) == [t |-> "str", n |-> 0, s |-> s, b |-> FALSE]
\* no value yet: the call has not returned
Pending == [t |-> "pending", n |-> 0, s |-> "", b |-> FALSE]

\* Python truthiness: a non-empty str is true
Truthy(v) == IF v.t = "bool" THEN v.b ELSE IF v.t = "str" THEN v.s # "" ELSE FALSE

\* Python `a and b`: a when a is falsy, else b
PyAnd(a, b) == IF Truthy(a) THEN b ELSE a

\* a number of the source or of a payload, in hundredths
Hundredths(n) == n * 100

-----------------------------------------------------------------------------
(* logic.py *)

MinIncome == 50000
MinAge == 21

QualifyingStatuses == {"employed", "self-employed"}

\* what lower-casing and stripping would make of the strings used here
Normalised(s) == IF s \in {"Employed", "EMPLOYED", "employed "} THEN "employed" ELSE s

StatusQualifies_normalised(employment_status) ==
    Normalised(employment_status) \in QualifyingStatuses

StatusQualifies_employed_only(employment_status) == employment_status = "employed"

\* employment_status in ['employed', 'self-employed']
StatusQualifies(employment_status) == employment_status \in QualifyingStatuses

IncomeQualifies_strict(income) == income > Hundredths(MinIncome)

\* an income bracket with an upper end as well
IncomeQualifies_window(income) ==
    income >= Hundredths(MinIncome) /\ income < Hundredths(60000)

\* income >= 50000
IncomeQualifies(income) == income >= Hundredths(MinIncome)

\* age >= 21
AgeQualifies(age) == age >= MinAge

\* the last operand left as the string itself instead of the membership test
is_eligable_for_load_status_operand(income, age, employment_status) ==
    PyAnd(PyAnd(PyBool(IncomeQualifies(income)), PyBool(AgeQualifies(age))),
          PyStr(employment_status))

\* a rule that reads module state: approves only while nothing was evaluated yet
is_eligable_for_load_first_only(income, age, employment_status) ==
    PyAnd(PyAnd(PyBool(IncomeQualifies(income)), PyBool(AgeQualifies(age))),
          PyBool(StatusQualifies(employment_status) /\ Len(log) = 0))

\* return (income >= 50000) and (age >= 21) and (employment_status in [...])
is_eligable_for_load(income, age, employment_status) ==
    PyAnd(PyAnd(PyBool(IncomeQualifies(income)), PyBool(AgeQualifies(age))),
          PyBool(StatusQualifies(employment_status)))

-----------------------------------------------------------------------------
(* main.py: the Applicant model and its validation *)

\* Field validation.  The payloads used here carry for a float or int field a
\* JSON number, a non-numeric string, null or nothing, and for a str field a
\* string, null or nothing; every age that is a number is a whole number.

float_field_lenient(v) == v.t \in {"number", "null"}

\* income: float
float_field(v) == v.t = "number"

\* age: int
int_field(v) == v.t = "number"

\* employment_status: str
str_field(v) == v.t = "string"

Validates_without_age(payload) ==
    /\ float_field(payload.income)
    /\ str_field(payload.employment_status)

\* the body validates into an Applicant
Validates(payload) ==
    /\ float_field(payload.income)
    /\ int_field(payload.age)
    /\ str_field(payload.employment_status)

\* Applicant(**payload): income as float, age as int, employment_status as str
ParseApplicant(payload) ==
    [income |-> payload.income.n,
     age |-> payload.age.n \div 100,
     employment_status |-> payload.employment_status.s]

-----------------------------------------------------------------------------
(* main.py: the application and the endpoint *)

HTTP_OK == 200

Workers == {"w1", "w2"}
MaxRequests == 3

\* app = FastAPI() with the one route registered by @app.post
InitApp == [routes |-> {[method |-> "POST", path |-> "/loan_eligibility"]},
            state |-> {}]

NoPayload == [income |-> Missing, age |-> Missing, employment_status |-> Missing]
NoApplicant == [income |-> 0, age |-> 0, employment_status |-> ""]
NoResponse == [status |-> 0, body |-> <<>>]

IdleReq == [pc |-> "idle", id |-> 0, payload |-> NoPayload, applicant |-> NoApplicant,
            eligibility |-> Pending, response |-> NoResponse, calls |-> 0]

Payload(i, a, s) == [income |-> i, age |-> a, employment_status |-> s]

\* request bodies: those of the tests, the boundaries, and malformed ones
Payloads ==
    { Payload(JNum(Hundredths(60000)), JNum(Hundredths(25)), JStr("employed")),
      Payload(JNum(Hundredths(30000)), JNum(Hundredths(18)), JStr("unemployed")),
      Payload(JNum(Hundredths(MinIncome)), JNum(Hundredths(MinAge)), JStr("self-employed")),
      Payload(JNum(Hundredths(MinIncome) - 1), JNum(Hundredths(MinAge)), JStr("employed")),
      Payload(JNum(Hundredths(70000)), JNum(Hundredths(MinAge - 1)), JStr("employed")),
      Payload(JNum(Hundredths(0 - 1)), JNum(Hundredths(30)), JStr("employed")),
      Payload(JNum(Hundredths(80000)), JNum(Hundredths(28)), JStr("Employed")),
      Payload(Missing, JNum(Hundredths(25)), JStr("employed")),
      Payload(JNum(Hundredths(60000)), JStr("abc"), JStr("employed")),
      Payload(JNum(Hundredths(60000)), JNum(Hundredths(25)), JNull),
      Payload(JNull, JNum(Hundredths(30)), JStr("self-employed")),
      Payload(JStr("abc"), Missing, JStr("student")) }

\* the applicant bound to the handler's parameter is the one of another request
ApplicantOf_shared(w) ==
    LET holders == {v \in Workers : req[v].pc = "validated" \/ req[v].calls > 0}
        latest == CHOOSE v \in holders : \A u \in holders : req[u].id <= req[v].id
    IN req[latest].applicant

\* the handler's parameter `applicant`, local to the request
ApplicantOf(w) == req[w].applicant

check_eligibility_call_swapped(applicant) ==
    is_eligable_for_load(Hundredths(applicant.age), applicant.income \div 100,
                         applicant.employment_status)

\* eligibility = is_eligable_for_load(income=..., age=..., employment_status=...)
check_eligibility_call(applicant) ==
    is_eligable_for_load(applicant.income, applicant.age, applicant.employment_status)

\* jsonable encoding of the returned value
JsonEncode(v) ==
    IF v.t = "bool" THEN JBool(v.b) ELSE IF v.t = "str" THEN JStr(v.s) ELSE JNull

\* return {"eligible": eligibility}
check_eligibility_return(eligibility) ==
    [status |-> HTTP_OK, body |-> [eligible |-> JsonEncode(eligibility)]]

\* the framework's answer to a body that does not validate
ValidationError == [status |-> 422, body |-> [detail |-> "validation error"]]

app_after_handler_caching(app_state, applicant, eligibility) ==
    [app_state EXCEPT !.state = @ \cup {[applicant |-> applicant, eligible |-> eligibility]}]

\* the handler assigns to nothing outside its locals
app_after_handler(app_state, applicant, eligibility) == app_state

\* a client sends POST /loan_eligibility with a JSON body
Receive(w, p) ==
    /\ req[w].pc = "idle"
    /\ served < MaxRequests
    /\ served' = served + 1
    /\ req' = [req EXCEPT ![w] = [IdleReq EXCEPT !.pc = "received", !.id = served + 1,
                                                !.payload = p]]
    /\ UNCHANGED <<rule_in, rule_out, app, log>>
    /\ UNCHANGED not_elig

\* the body validates: the Applicant is built and the handler is entered
Admit(w) ==
    /\ req[w].pc = "received"
    /\ Validates(req[w].payload)
    /\ req' = [req EXCEPT ![w].pc = "validated",
                          ![w].applicant = ParseApplicant(req[w].payload)]
    /\ UNCHANGED <<rule_in, rule_out, app, log, served>>
    /\ UNCHANGED not_elig

\* the body does not validate: answered without entering the handler
Reject(w) ==
    /\ req[w].pc = "received"
    /\ ~Validates(req[w].payload)
    /\ req' = [req EXCEPT ![w].pc = "done", ![w].response = ValidationError]
    /\ UNCHANGED <<rule_in, rule_out, app, log, served>>
    /\ UNCHANGED not_elig

\* a handler that evaluates the rule a second time for the same request
CallRule_retry(w) ==
    /\ req[w].pc \in {"validated", "called"}
    /\ req[w].calls < 2
    /\ LET a == ApplicantOf(w)
           e == check_eligibility_call(a)
       IN /\ req' = [req EXCEPT ![w].pc = "called", ![w].eligibility = e,
                                ![w].calls = @ + 1]
          /\ log' = Append(log, [id |-> req[w].id, income |-> a.income, age |-> a.age,
                                 employment_status |-> a.employment_status,
                                 result |-> e])
    /\ UNCHANGED <<rule_in, rule_out, app, served>>
    /\ UNCHANGED not_elig

\* the handler calls the rule
CallRule(w) ==
    /\ req[w].pc = "validated"
    /\ LET a == ApplicantOf(w)
           e == check_eligibility_call(a)
       IN /\ req' = [req EXCEPT ![w].pc = "called", ![w].eligibility = e,
                                ![w].calls = @ + 1]
          /\ log' = Append(log, [id |-> req[w].id, income |-> a.income, age |-> a.age,
                                 employment_status |-> a.employment_status,
                                 result |-> e])
    /\ UNCHANGED <<rule_in, rule_out, app, served>>
    /\ UNCHANGED not_elig

\* the handler returns its dict
Return(w) ==
    /\ req[w].pc = "called"
    /\ req' = [req EXCEPT ![w].pc = "done",
                          ![w].response = check_eligibility_return(req[w].eligibility)]
    /\ app' = app_after_handler(app, req[w].applicant, req[w].eligibility)
    /\ UNCHANGED <<rule_in, rule_out, log, served>>
    /\ UNCHANGED not_elig

\* the response is sent; the request and its Applicant are dropped
Complete(w) ==
    /\ req[w].pc = "done"
    /\ req' = [req EXCEPT ![w] = IdleReq]
    /\ UNCHANGED <<rule_in, rule_out, app, log, served>>
    /\ UNCHANGED not_elig

InitEndpoint ==
    /\ req = [w \in Workers |-> IdleReq]
    /\ app = InitApp
    /\ log = <<>>
    /\ served = 0

Next ==
    \E w \in Workers :
        \/ \E p \in Payloads : Receive(w, p)
        \/ Admit(w)
        \/ Reject(w)
        \/ CallRule(w)
        \/ Return(w)
        \/ Complete(w)

-----------------------------------------------------------------------------
(* Unit-level calls of the rule *)

Incomes == {Hundredths(0 - 1), 0, Hundredths(MinIncome - 1), Hundredths(MinIncome) - 1,
            Hundredths(MinIncome), Hundredths(MinIncome) + 1, Hundredths(60000)}
Ages == {0 - 1, 0, MinAge - 1, MinAge, 25}
Statuses == {"employed", "self-employed", "Employed", "EMPLOYED", "employed ",
             "selfemployed", "", "unemployed", "student"}

RuleInputs == [income : Incomes, age : Ages, employment_status : Statuses]

\* one call is_eligable_for_load(income, age, employment_status)
RuleApply ==
    /\ rule_out = Pending
    /\ rule_out' = is_eligable_for_load(rule_in.income, rule_in.age,
                                        rule_in.employment_status)
    /\ UNCHANGED <<rule_in, req, app, log, served>>
    /\ UNCHANGED not_elig

NextRule == RuleApply

-----------------------------------------------------------------------------
(* Properties of the rule, checked under SpecRule *)

Returned == rule_out # Pending

AllThreeHold ==
    /\ rule_in.income >= Hundredths(MinIncome)
    /\ rule_in.age >= MinAge
    /\ rule_in.employment_status \in {"employed", "self-employed"}

\* C1: the rule returns true exactly when income >= 50000, age >= 21 and the
\* status is 'employed' or 'self-employed'; with any of the three violated it
\* returns false, whatever the other two are.
C1_EligibleIffAllThree ==
    Returned =>
        /\ (rule_out = PyBool(TRUE)) <=> AllThreeHold
        /\ ~AllThreeHold => rule_out = PyBool(FALSE)

C1_Witness ==
    /\ rule_out = PyBool(TRUE)
    /\ rule_in.employment_status = "self-employed"

\* C2: the thresholds are inclusive.  With the other two conditions met,
\* income 50000 is eligible and 49999.99 is not, age 21 is eligible and age 20
\* is not; one unit below either threshold is never eligible.
C2_InclusiveThresholds ==
    Returned =>
        LET statusOk == rule_in.employment_status \in {"employed", "self-employed"}
            incomeOk == rule_in.income >= Hundredths(MinIncome)
            ageOk == rule_in.age >= MinAge
        IN /\ (rule_in.income = Hundredths(MinIncome) /\ ageOk /\ statusOk)
                  => rule_out = PyBool(TRUE)
           /\ (rule_in.age = MinAge /\ incomeOk /\ statusOk)
                  => rule_out = PyBool(TRUE)
           /\ rule_in.income \in {Hundredths(MinIncome) - 1, Hundredths(MinIncome - 1)}
                  => rule_out = PyBool(FALSE)
           /\ rule_in.age = MinAge - 1 => rule_out = PyBool(FALSE)

C2_Witness ==
    /\ rule_out = PyBool(TRUE)
    /\ rule_in.income = Hundredths(MinIncome)
    /\ rule_in.age = MinAge

\* C4: the status match is exact: any string other than 'employed' and
\* 'self-employed' (another case, a trailing space, a missing hyphen, the
\* empty string, ...) gives false even with income and age sufficient.
C4_ExactStatusMatch ==
    (Returned /\ rule_in.employment_status \notin {"employed", "self-employed"})
        => rule_out = PyBool(FALSE)

C4_Witness ==
    /\ rule_out = PyBool(FALSE)
    /\ rule_in.employment_status = "Employed"
    /\ rule_in.income >= Hundredths(MinIncome)
    /\ rule_in.age >= MinAge

\* C5: the rule is total: for every well-typed input, zero and negative
\* income and age and any string included, what it returns is a bool.
C5_ReturnsBool == Returned => rule_out.t = "bool"

C5_Witness ==
    /\ rule_out.t = "bool"
    /\ rule_in.income < 0
    /\ rule_in.age < 0
    /\ rule_in.employment_status = ""

-----------------------------------------------------------------------------
(* The rule applied again to the same applicant with a raised income or age *)

\* how often an applicant is evaluated again after the first evaluation
MaxRaises == 2

\* one call is_eligable_for_load(income, age, employment_status), recorded
RuleEvaluate ==
    /\ rule_out = Pending
    /\ LET e == is_eligable_for_load(rule_in.income, rule_in.age,
                                      rule_in.employment_status)
       IN /\ rule_out' = e
          /\ log' = Append(log, [id |-> 0, income |-> rule_in.income, age |-> rule_in.age,
                                 employment_status |-> rule_in.employment_status,
                                 result |-> e])
    /\ UNCHANGED <<rule_in, req, app, served>>
    /\ UNCHANGED not_elig

\* the next call is for the same status with an income and an age that are
\* not lower than before
RaiseApplicant(income, age) ==
    /\ rule_out # Pending
    /\ Len(log) <= MaxRaises
    /\ income >= rule_in.income
    /\ age >= rule_in.age
    /\ rule_in' = [rule_in EXCEPT !.income = income, !.age = age]
    /\ rule_out' = Pending
    /\ UNCHANGED <<req, app, log, served>>
    /\ UNCHANGED not_elig

NextRaise ==
    \/ RuleEvaluate
    \/ \E income \in Incomes, age \in Ages : RaiseApplicant(income, age)

-----------------------------------------------------------------------------
(* Properties of the raised applicant, checked under SpecRaise *)

\* applicant f has the status of e and at least its income and its age
Dominates(f, e) ==
    /\ f.employment_status = e.employment_status
    /\ f.income >= e.income
    /\ f.age >= e.age

\* C21: eligibility is monotone in income and in age: when an applicant is
\* eligible, every applicant with the same status, an income at least as high
\* and an age at least as high is eligible too.
C21_MonotoneInIncomeAndAge ==
    \A i, j \in 1..Len(log) :
        (Dominates(log[j], log[i]) /\ log[i].result = PyBool(TRUE))
            => log[j].result = PyBool(TRUE)

\* an applicant at both thresholds, then with more income, then older as well
C21_Witness ==
    /\ Len(log) = 3
    /\ log[1].income = Hundredths(MinIncome) /\ log[1].age = MinAge
    /\ log[1].result = PyBool(TRUE)
    /\ log[2].income > log[1].income /\ log[2].age = log[1].age
    /\ log[3].income = log[2].income /\ log[3].age > log[2].age
    /\ log[3].result = PyBool(TRUE)

-----------------------------------------------------------------------------
(* Properties of the endpoint, checked under Spec *)

SameInput(e, f) ==
    /\ e.income = f.income
    /\ e.age = f.age
    /\ e.employment_status = f.employment_status

\* C6: two evaluations of the rule with identical arguments return identical
\* results, whatever was evaluated before or between them.
C6_Deterministic ==
    \A i, j \in 1..Len(log) : SameInput(log[i], log[j]) => log[i].result = log[j].result

C6_Witness ==
    \E i, j, k \in 1..Len(log) :
        /\ i < j /\ j < k
        /\ SameInput(log[i], log[k])
        /\ log[i].result = PyBool(TRUE)
        /\ log[j].result = PyBool(FALSE)

\* the payload has the three fields with the declared JSON types
WellTyped(p) ==
    /\ p.income.t = "number"
    /\ p.age.t = "number"
    /\ p.employment_status.t = "string"

\* C3: a request with a well-typed Applicant is answered 200 with a body of
\* the single field eligible, whose value is the rule's result for that
\* applicant; the endpoint gives such a request no other answer.
C3_ResponseIsRuleResult ==
    \A w \in Workers :
        (req[w].pc = "done" /\ WellTyped(req[w].payload)) =>
            /\ req[w].response.status = HTTP_OK
            /\ DOMAIN req[w].response.body = {"eligible"}
            /\ req[w].response.body.eligible =
                   JsonEncode(is_eligable_for_load(req[w].applicant.income,
                                                   req[w].applicant.age,
                                                   req[w].applicant.employment_status))

C3_Witness ==
    \E w \in Workers :
        /\ req[w].pc = "done"
        /\ req[w].applicant = [income |-> Hundredths(60000), age |-> 25,
                               employment_status |-> "employed"]
        /\ req[w].response = [status |-> HTTP_OK, body |-> [eligible |-> JBool(TRUE)]]

\* what a request with payload p gets when it is served alone
AloneResult(p) == check_eligibility_call(ParseApplicant(p))

\* C7: with requests served concurrently in any interleaving, the result
\* and the response of each request are those of the rule on its own
\* applicant, whatever the other requests are and wherever they stand.
C7_IndependentRequests ==
    \A w \in Workers :
        WellTyped(req[w].payload) =>
            /\ req[w].pc \in {"called", "done"}
                   => req[w].eligibility = AloneResult(req[w].payload)
            /\ req[w].pc = "done"
                   => req[w].response.body.eligible = JsonEncode(AloneResult(req[w].payload))

\* two requests in flight together, evaluated in the opposite order of their
\* arrival, with different outcomes
C7_Witness ==
    \E v, w \in Workers :
        /\ req[v].pc = "done" /\ req[w].pc = "done"
        /\ req[v].id < req[w].id
        /\ req[v].response.body = [eligible |-> JBool(TRUE)]
        /\ req[w].response.body = [eligible |-> JBool(FALSE)]
        /\ \E i, j \in 1..Len(log) : i < j /\ log[i].id = req[w].id /\ log[j].id = req[v].id

\* C8: serving requests leaves the application state as it was: after any
\* sequence of evaluations it equals the state before them.
C8_AppStateUnchanged == app = InitApp

C8_Witness ==
    /\ app = InitApp
    /\ Len(log) >= 2
    /\ \E w \in Workers : req[w].pc = "done" /\ req[w].calls > 0

\* C9 as stated: every Applicant handed to the rule has a non-negative income.
C9_IncomeNonNegative == \A i \in 1..Len(log) : log[i].income >= 0

\* C9 as amended: the income of every Applicant handed to the rule is a
\* number, the very number of the request body, of any sign.
C9_IncomeIsPayloadNumber ==
    \A w \in Workers :
        req[w].calls > 0 =>
            /\ req[w].payload.income.t = "number"
            /\ \A i \in 1..Len(log) :
                   log[i].id = req[w].id => log[i].income = req[w].payload.income.n

C9_Witness ==
    \E w \in Workers :
        /\ req[w].calls > 0
        /\ req[w].payload.income = JNum(Hundredths(0 - 1))
        /\ req[w].eligibility = PyBool(FALSE)
        /\ \E i \in 1..Len(log) : log[i].id = req[w].id /\ log[i].income < 0

\* C10: a payload with a missing or wrongly typed field is answered with a
\* client error without the rule ever being invoked for it.
C10_MalformedNeverReachesRule ==
    \A w \in Workers :
        (req[w].pc # "idle" /\ ~WellTyped(req[w].payload)) =>
            /\ req[w].calls = 0
            /\ req[w].pc \in {"received", "done"}
            /\ req[w].pc = "done" => req[w].response.status \in 400..499
            /\ \A i \in 1..Len(log) : log[i].id # req[w].id

\* one request rejected for a missing field and one for a wrongly typed field
C10_Witness ==
    \E v, w \in Workers :
        /\ req[v].pc = "done" /\ req[w].pc = "done"
        /\ req[v].payload.income = Missing
        /\ req[w].payload.age = JStr("abc")
        /\ req[v].response.status = 422 /\ req[w].response.status = 422
        /\ req[v].calls = 0 /\ req[w].calls = 0

\* the evaluations recorded for the request with this id
EvaluationsOf(id) == {i \in 1..Len(log) : log[i].id = id}

\* C11: each valid request has one Applicant, consumed by exactly one
\* evaluation of the rule: none before the handler runs, one from the call
\* on, never a second one, and always on the Applicant of that very request.
C11_ExactlyOneEvaluation ==
    /\ \A w \in Workers :
           /\ req[w].pc \in {"received", "validated"}
                  => req[w].calls = 0 /\ EvaluationsOf(req[w].id) = {}
           /\ (req[w].pc \in {"called", "done"} /\ WellTyped(req[w].payload))
                  => /\ req[w].calls = 1
                     /\ Cardinality(EvaluationsOf(req[w].id)) = 1
                     /\ \A i \in EvaluationsOf(req[w].id) :
                            SameInput(log[i], ParseApplicant(req[w].payload))
    /\ \A i, j \in 1..Len(log) : log[i].id = log[j].id => i = j
    /\ Len(log) <= served

\* three requests served one after the other, each evaluated once
C11_Witness ==
    /\ Len(log) = 3
    /\ \E w \in Workers : req[w].pc = "done" /\ req[w].calls = 1 /\ req[w].id = 3

-----------------------------------------------------------------------------
(* Employee CRUD: crud_app *)

HTTP_NOT_FOUND == 404

MaxCrudRequests == 3

Names == {"Asha", "Ravi"}
Emails == {"asha@example.com", "ravi@example.com"}
EmpIds == 1..2

\* schemas.EmployeeCreate / schemas.EmployeeUpdate, already validated
EmployeeData == [name : Names, email : Emails]
NoEmployeeData == [name |-> "", email |-> ""]

\* None, where a row is expected
NoRow == [id |-> 0, name |-> "", email |-> ""]

StoredIds(table) == {r.id : r \in table}

\* db.query(models.Employee).filter(models.Employee.id == emp_id).first()
FirstById(table, emp_id) ==
    IF emp_id \in StoredIds(table) THEN CHOOSE r \in table : r.id = emp_id ELSE NoRow

\* id = Column(Integer, primary_key=True): SQLite gives the largest id plus one
NextRowId(table) ==
    IF table = {} THEN 1
    ELSE (CHOOSE m \in StoredIds(table) : \A k \in StoredIds(table) : k <= m) + 1

UniqueViolation_unchecked(table, row) == FALSE

\* email = Column(String, unique=True): another row has this email
UniqueViolation(table, row) == \E r \in table : r.email = row.email /\ r.id # row.id

\* what a crud function leaves: the committed table, the returned row, and
\* the exception db.commit() raised, if any (the session then rolls back)
CrudResult(table, row, error) == [table |-> table, row |-> row, error |-> error]

\* crud.get_employees
crud_get_employees(table) == table

\* crud.get_employee
crud_get_employee(table, emp_id) == FirstById(table, emp_id)

\* crud.create_employee
crud_create_employee(table, employee) ==
    LET db_employee == [id |-> NextRowId(table), name |-> employee.name,
                        email |-> employee.email]
    IN IF UniqueViolation(table, db_employee)
       THEN CrudResult(table, NoRow, "IntegrityError")
       ELSE CrudResult(table \cup {db_employee}, db_employee, "")

\* an update that inserts the row when the id is not stored
crud_update_employee_upsert(table, emp_id, employee) ==
    LET db_employee == FirstById(table, emp_id)
        updated == [id |-> emp_id, name |-> employee.name, email |-> employee.email]
    IN IF UniqueViolation(table, updated)
       THEN CrudResult(table, NoRow, "IntegrityError")
       ELSE CrudResult((table \ {db_employee}) \cup {updated}, updated, "")

\* crud.update_employee
crud_update_employee(table, emp_id, employee) ==
    LET db_employee == FirstById(table, emp_id)
        updated == [id |-> emp_id, name |-> employee.name, email |-> employee.email]
    IN IF db_employee = NoRow
       THEN CrudResult(table, NoRow, "")
       ELSE IF UniqueViolation(table, updated)
            THEN CrudResult(table, NoRow, "IntegrityError")
            ELSE CrudResult((table \ {db_employee}) \cup {updated}, updated, "")

\* crud.delete_employee
crud_delete_employee(table, emp_id) ==
    LET db_employee == FirstById(table, emp_id)
    IN IF db_employee = NoRow
       THEN CrudResult(table, NoRow, "")
       ELSE CrudResult(table \ {db_employee}, db_employee, "")

\* raise HTTPException(status_code=404, detail="Employee Not Found")
NotFound == [status |-> HTTP_NOT_FOUND, body |-> [detail |-> "Employee Not Found"]]

\* the framework's answer to an exception the endpoint does not handle
ServerError == [status |-> 500, body |-> [detail |-> "Internal Server Error"]]

OkResponse(body) == [status |-> HTTP_OK, body |-> body]

\* what an endpoint leaves: the table and the response
EndpointResult(table, response) == [table |-> table, response |-> response]

\* POST /employees
create_employee(table, employee) ==
    LET r == crud_create_employee(table, employee)
    IN EndpointResult(r.table, IF r.error # "" THEN ServerError ELSE OkResponse(r.row))

\* GET /employees
get_employees(table) == EndpointResult(table, OkResponse(crud_get_employees(table)))

\* GET /employees/{emp_id}
get_employee(table, emp_id) ==
    LET employee == crud_get_employee(table, emp_id)
    IN EndpointResult(table, IF employee = NoRow THEN NotFound ELSE OkResponse(employee))

\* PUT /employees/{emp_id}
update_employee(table, emp_id, employee) ==
    LET r == crud_update_employee(table, emp_id, employee)
    IN EndpointResult(r.table,
                      IF r.error # "" THEN ServerError
                      ELSE IF r.row = NoRow THEN NotFound ELSE OkResponse(r.row))

\* DELETE /employees/{emp_id}
delete_employee(table, emp_id) ==
    LET r == crud_delete_employee(table, emp_id)
    IN EndpointResult(r.table,
                      IF r.row = NoRow THEN NotFound
                      ELSE OkResponse([detail |-> "Employee Deleted"]))

CrudRequest(op, emp_id, employee) == [op |-> op, emp_id |-> emp_id, employee |-> employee]

CrudRequests ==
    {CrudRequest("create", 0, e) : e \in EmployeeData}
    \cup {CrudRequest("list", 0, NoEmployeeData)}
    \cup {CrudRequest("get", i, NoEmployeeData) : i \in EmpIds}
    \cup {CrudRequest("update", i, e) : i \in EmpIds, e \in EmployeeData}
    \cup {CrudRequest("delete", i, NoEmployeeData) : i \in EmpIds}

\* pc: idle, received, injected (the session is handed to the endpoint),
\* finished (the endpoint returned or raised)
IdleCrud == [pc |-> "idle", id |-> 0, call |-> CrudRequest("", 0, NoEmployeeData),
             session |-> "none", closes |-> 0, exited |-> FALSE, sent |-> FALSE,
             response |-> NoResponse]

\* a client sends a request to one of the /employees routes
CrudReceive(w, r) ==
    /\ creq[w].pc = "idle"
    /\ cserved < MaxCrudRequests
    /\ cserved' = cserved + 1
    /\ creq' = [creq EXCEPT ![w] = [IdleCrud EXCEPT !.pc = "received", !.id = cserved + 1,
                                                   !.call = r]]
    /\ UNCHANGED <<employees, sessions>>
    /\ UNCHANGED not_crud

\* get_db up to its yield: db = SessionLocal(); yield db
OpenSession(w) ==
    /\ creq[w].pc = "received"
    /\ creq' = [creq EXCEPT ![w].pc = "injected", ![w].session = "open"]
    /\ sessions' = sessions \cup {creq[w].id}
    /\ UNCHANGED <<employees, cserved>>
    /\ UNCHANGED not_crud

\* the endpoint runs with its session; its database work is one transaction
Finish(w, result) ==
    /\ employees' = result.table
    /\ creq' = [creq EXCEPT ![w].pc = "finished", ![w].response = result.response]
    /\ UNCHANGED <<sessions, cserved>>
    /\ UNCHANGED not_crud

RunCreate(w) ==
    /\ creq[w].pc = "injected" /\ creq[w].call.op = "create"
    /\ Finish(w, create_employee(employees, creq[w].call.employee))

RunList(w) ==
    /\ creq[w].pc = "injected" /\ creq[w].call.op = "list"
    /\ Finish(w, get_employees(employees))

RunGet(w) ==
    /\ creq[w].pc = "injected" /\ creq[w].call.op = "get"
    /\ Finish(w, get_employee(employees, creq[w].call.emp_id))

RunUpdate(w) ==
    /\ creq[w].pc = "injected" /\ creq[w].call.op = "update"
    /\ Finish(w, update_employee(employees, creq[w].call.emp_id, creq[w].call.employee))

RunDelete(w) ==
    /\ creq[w].pc = "injected" /\ creq[w].call.op = "delete"
    /\ Finish(w, delete_employee(employees, creq[w].call.emp_id))

\* a get_db whose close is not in a finally: skipped when the endpoint raised
CloseSession_unless_raised(w) ==
    /\ creq[w].pc = "finished"
    /\ ~creq[w].exited
    /\ IF creq[w].response.status = HTTP_OK
       THEN /\ creq' = [creq EXCEPT ![w].session = "closed", ![w].closes = @ + 1,
                                    ![w].exited = TRUE]
            /\ sessions' = sessions \ {creq[w].id}
       ELSE /\ creq' = [creq EXCEPT ![w].exited = TRUE]
            /\ sessions' = sessions
    /\ UNCHANGED <<employees, cserved>>
    /\ UNCHANGED not_crud

\* get_db after its yield: finally: db.close()
CloseSession(w) ==
    /\ creq[w].pc = "finished"
    /\ ~creq[w].exited
    /\ creq' = [creq EXCEPT ![w].session = "closed", ![w].closes = @ + 1,
                            ![w].exited = TRUE]
    /\ sessions' = sessions \ {creq[w].id}
    /\ UNCHANGED <<employees, cserved>>
    /\ UNCHANGED not_crud

\* the response goes out, before or after the dependency's exit code
\* (the order depends on the framework's version)
SendResponse(w) ==
    /\ creq[w].pc = "finished"
    /\ ~creq[w].sent
    /\ creq' = [creq EXCEPT ![w].sent = TRUE]
    /\ UNCHANGED <<employees, sessions, cserved>>
    /\ UNCHANGED not_crud

\* the request is over
CrudComplete(w) ==
    /\ creq[w].pc = "finished"
    /\ creq[w].exited /\ creq[w].sent
    /\ creq' = [creq EXCEPT ![w] = IdleCrud]
    /\ UNCHANGED <<employees, sessions, cserved>>
    /\ UNCHANGED not_crud

\* Base.metadata.create_all(bind=engine): an empty employees table
InitCrud ==
    /\ employees = {}
    /\ sessions = {}
    /\ creq = [w \in Workers |-> IdleCrud]
    /\ cserved = 0

NextCrud ==
    \E w \in Workers :
        \/ \E r \in CrudRequests : CrudReceive(w, r)
        \/ OpenSession(w)
        \/ RunCreate(w)
        \/ RunList(w)
        \/ RunGet(w)
        \/ RunUpdate(w)
        \/ RunDelete(w)
        \/ CloseSession(w)
        \/ SendResponse(w)
        \/ CrudComplete(w)

-----------------------------------------------------------------------------
(* Properties of the employee CRUD API, checked under SpecCrud *)

\* worker w takes the step in which its endpoint runs
EndpointRuns(w) == creq[w].pc = "injected" /\ creq'[w].pc = "finished"

\* C12: GET, PUT and DELETE /employees/{emp_id} for an id that is not stored
\* answer 404 'Employee Not Found' and leave the employees table as it was.
C12_NotStoredIs404 ==
    [][\A w \in Workers :
         (/\ EndpointRuns(w)
          /\ creq[w].call.op \in {"get", "update", "delete"}
          /\ \A r \in employees : r.id # creq[w].call.emp_id)
         => /\ creq'[w].response.status = 404
            /\ creq'[w].response.body = [detail |-> "Employee Not Found"]
            /\ employees' = employees]_vars

\* a PUT and a DELETE for ids not stored, answered 404, with a row in the table
C12_Witness ==
    /\ employees # {}
    /\ \E v, w \in Workers :
           /\ creq[v].pc = "finished" /\ creq[v].call.op = "update"
           /\ creq[w].pc = "finished" /\ creq[w].call.op = "delete"
           /\ creq[v].response.status = 404 /\ creq[w].response.status = 404
           /\ \A r \in employees : r.id # creq[v].call.emp_id /\ r.id # creq[w].call.emp_id

\* C13: the session of get_db is closed exactly once, only after the endpoint
\* has finished, also when the endpoint raised; every open session belongs to
\* a request that is still being served.
C13_SessionClosedOnce ==
    /\ \A w \in Workers :
           /\ creq[w].closes <= 1
           /\ creq[w].pc = "injected" => creq[w].session = "open" /\ creq[w].closes = 0
           /\ creq[w].closes = 1 => creq[w].pc = "finished" /\ creq[w].session = "closed"
           /\ creq[w].exited => creq[w].closes = 1 /\ creq[w].id \notin sessions
    /\ \A s \in sessions :
           \E w \in Workers : creq[w].id = s /\ creq[w].pc \in {"injected", "finished"}
                              /\ ~creq[w].exited

\* a request that ended in 404, its session closed, after two requests completed
C13_Witness ==
    /\ sessions = {}
    /\ cserved = 3
    /\ \E w \in Workers :
           /\ creq[w].id = 3
           /\ creq[w].response.status = 404
           /\ creq[w].exited /\ creq[w].sent /\ creq[w].closes = 1
    /\ \E w \in Workers : creq[w].pc = "idle"

UniqueEmails(table) == \A r, q \in table : r.email = q.email => r = q

\* C14: no two rows of the employees table ever have the same email, and a
\* create or an update that would give a second row an email already stored
\* leaves the table as it was.
C14_EmailsStayUnique ==
    [][/\ UniqueEmails(employees')
       /\ \A w \in Workers :
            (/\ EndpointRuns(w)
             /\ \/ /\ creq[w].call.op = "create"
                   /\ \E r \in employees : r.email = creq[w].call.employee.email
                \/ /\ creq[w].call.op = "update"
                   /\ \E r \in employees : /\ r.email = creq[w].call.employee.email
                                           /\ r.id # creq[w].call.emp_id)
            => employees' = employees]_vars

\* a create and an update refused for a duplicate email, two rows stored
C14_Witness ==
    /\ Cardinality(employees) = 2
    /\ \E w \in Workers :
           /\ creq[w].pc = "finished" /\ creq[w].call.op = "update"
           /\ \E r \in employees : /\ r.email = creq[w].call.employee.email
                                   /\ r.id # creq[w].call.emp_id
           /\ creq[w].call.emp_id \in {r.id : r \in employees}
           /\ creq[w].response.status = 500

-----------------------------------------------------------------------------
(* JWT authentication: jwt_authentication/utils.py, auth.py, main.py *)

SECRET_KEY == "my_secrete"
ACCESS_TOKEN_EXPIRY_MINUTES == 30

MaxClock == 32
MaxTokens == 1

\* pwd_context.hash(password): a hash that verifies against that password only
PasswordHash(password) == [hash_of |-> password]

\* fake_user_db
fake_user_db == [u \in {"johndoe"} |->
                    [username |-> "johndoe", hashed_password |-> PasswordHash("secret123")]]

NoUser == [username |-> "", hashed_password |-> PasswordHash("")]

\* utils.get_user: fake_user_db.get(username)
get_user(username) ==
    IF username \in DOMAIN fake_user_db THEN fake_user_db[username] ELSE NoUser

\* utils.verify_password: pwd_context.verify(plain_password, hashed_password)
verify_password(plain_password, hashed_password) == hashed_password.hash_of = plain_password

\* A token: wellformed says whether it parses as a JWT, key is the key it was
\* signed with; the claims sub and exp may be absent.
Token(key, has_sub, sub, has_exp, exp) ==
    [wellformed |-> TRUE, key |-> key, has_sub |-> has_sub, sub |-> sub,
     has_exp |-> has_exp, exp |-> exp]

Garbage == [wellformed |-> FALSE, key |-> "", has_sub |-> FALSE, sub |-> "",
            has_exp |-> FALSE, exp |-> 0]

create_access_tokens_no_expiry(data, t) == Token(SECRET_KEY, TRUE, data.sub, FALSE, 0)

\* auth.create_access_tokens, called at time t
create_access_tokens(data, t) ==
    Token(SECRET_KEY, TRUE, data.sub, TRUE, t + ACCESS_TOKEN_EXPIRY_MINUTES)

jwt_decode_unverified(token, key) == token.wellformed

\* jwt.decode(token, key) succeeds: the token parses and its signature verifies
jwt_decode(token, key) == token.wellformed /\ token.key = key

claims_validate_nothing(claims, t) == TRUE

\* claims.validate() succeeds at time t: an exp claim, if present, is not past
claims_validate(claims, t) == ~(claims.has_exp /\ claims.exp < t)

ReturnedUser(username) == [kind |-> "return", username |-> username, status |-> 0, detail |-> ""]
HTTPException(status, detail) ==
    [kind |-> "HTTPException", username |-> "", status |-> status, detail |-> detail]

\* auth.verify_token, called at time t
verify_token(token, t) ==
    IF ~jwt_decode(token, SECRET_KEY) THEN HTTPException(401, "Couldn't validate Credentials")
    ELSE IF ~claims_validate(token, t)
         THEN HTTPException(401, "Couldn't validate Credentials")
         ELSE IF ~token.has_sub THEN HTTPException(401, "Token Missing")
              ELSE ReturnedUser(token.sub)

NoToken == Garbage

\* what login leaves: the response and the token it created, if any
LoginResult(status, detail, created, token) ==
    [status |-> status, detail |-> detail, created |-> created, access_token |-> token,
     token_type |-> IF created THEN "bearer" ELSE ""]

login_password_unchecked(username, password, t) ==
    IF get_user(username) = NoUser
    THEN LoginResult(400, "Invalid User Name", FALSE, NoToken)
    ELSE LoginResult(HTTP_OK, "", TRUE, create_access_tokens([sub |-> username], t))

\* main.login (POST /token), called at time t
login(username, password, t) ==
    LET user_dict == get_user(username)
    IN IF user_dict = NoUser
       THEN LoginResult(400, "Invalid User Name", FALSE, NoToken)
       ELSE IF ~verify_password(password, user_dict.hashed_password)
            THEN LoginResult(400, "Invalid Password", FALSE, NoToken)
            ELSE LoginResult(HTTP_OK, "", TRUE,
                             create_access_tokens([sub |-> username], t))

\* main.read_users (GET /users), called at time t
read_users(token, t) ==
    LET r == verify_token(token, t)
    IN IF r.kind = "return"
       THEN [status |-> HTTP_OK, body |-> [username |-> r.username]]
       ELSE [status |-> r.status, body |-> [detail |-> r.detail]]

Usernames == {"johndoe", "alice"}
Passwords == {"secret123", "wrong"}

\* tokens a client can make up: other keys, absent claims, early and late exp
CraftedTokens ==
    {Garbage}
    \cup {Token(k, hs, "johndoe", he, e) :
            k \in {SECRET_KEY, "guess"}, hs \in BOOLEAN, he \in {TRUE}, e \in {2, MaxClock + 1}}
    \cup {Token(k, hs, "johndoe", FALSE, 0) : k \in {SECRET_KEY, "guess"}, hs \in BOOLEAN}

IssuedTokens == {i.token : i \in issued}

NoJwtRequest == [kind |-> "none", username |-> "", password |-> "", token |-> NoToken,
                 login |-> LoginResult(0, "", FALSE, NoToken),
                 outcome |-> ReturnedUser(""), response |-> NoResponse]

\* a minute passes between two requests
Tick ==
    /\ jres.kind = "none"
    /\ now < MaxClock
    /\ now' = now + 1
    /\ UNCHANGED <<issued, jres>>
    /\ UNCHANGED not_jwt

\* POST /token with a username and a password
Login(username, password) ==
    /\ jres.kind = "none"
    /\ LET r == login(username, password, now)
       IN /\ r.created => Cardinality(issued) < MaxTokens
          /\ jres' = [NoJwtRequest EXCEPT !.kind = "login", !.username = username,
                                          !.password = password, !.login = r]
          /\ issued' = IF r.created
                       THEN issued \cup {[token |-> r.access_token, at |-> now]}
                       ELSE issued
    /\ UNCHANGED now
    /\ UNCHANGED not_jwt

\* GET /users with a bearer token
ReadUsers(token) ==
    /\ jres.kind = "none"
    /\ jres' = [NoJwtRequest EXCEPT !.kind = "users", !.token = token,
                                    !.outcome = verify_token(token, now),
                                    !.response = read_users(token, now)]
    /\ UNCHANGED <<now, issued>>
    /\ UNCHANGED not_jwt

\* the response is sent
JwtDone ==
    /\ jres.kind # "none"
    /\ jres' = NoJwtRequest
    /\ UNCHANGED <<now, issued>>
    /\ UNCHANGED not_jwt

InitJwt ==
    /\ now = 0
    /\ issued = {}
    /\ jres = NoJwtRequest

NextJwt ==
    \/ Tick
    \/ \E u \in Usernames, p \in Passwords : Login(u, p)
    \/ \E k \in IssuedTokens \cup CraftedTokens : ReadUsers(k)
    \/ JwtDone

-----------------------------------------------------------------------------
(* Properties of the JWT API, checked under SpecJwt *)

\* the step in which POST /token is answered
LoginStep == jres.kind = "none" /\ jres'.kind = "login"

\* C15: POST /token creates a token only for a username of the user store
\* with the password of the stored hash.  An unknown username is answered
\* 400 'Invalid User Name', a known one with a wrong password 400 'Invalid
\* Password', both without a token being created; on success the token's sub
\* is the submitted username and token_type is 'bearer'.
C15_TokenOnlyForValidLogin ==
    [][LoginStep =>
         LET r == jres'.login
             known == jres'.username = "johndoe"
             right == jres'.password = "secret123"
         IN /\ ~known => /\ r.status = 400 /\ r.detail = "Invalid User Name"
                         /\ ~r.created /\ issued' = issued
            /\ (known /\ ~right) => /\ r.status = 400 /\ r.detail = "Invalid Password"
                                    /\ ~r.created /\ issued' = issued
            /\ (known /\ right) => /\ r.status = 200 /\ r.created
                                   /\ r.token_type = "bearer"
                                   /\ r.access_token.has_sub
                                   /\ r.access_token.sub = jres'.username
                                   /\ r.access_token.key = "my_secrete"
                                   /\ r.access_token \in {i.token : i \in issued'}]_vars

\* a wrong password refused after a token was issued to the same user
C15_Witness ==
    /\ jres.kind = "login"
    /\ jres.username = "johndoe" /\ jres.password = "wrong"
    /\ jres.login.status = 400
    /\ \E i \in issued : i.token.sub = "johndoe"

\* C16: a token expires 30 minutes after it was issued: its exp is the time
\* of issue plus 30, GET /users accepts it at every time before exp and
\* answers 401 at every time after exp.
C16_ExpiresAfterThirtyMinutes ==
    /\ \A i \in issued : i.token.has_exp /\ i.token.exp = i.at + 30
    /\ (jres.kind = "users" /\ jres.token \in {i.token : i \in issued}) =>
           /\ now < jres.token.exp =>
                  /\ jres.outcome.kind = "return"
                  /\ jres.response = [status |-> 200,
                                      body |-> [username |-> jres.token.sub]]
           /\ now > jres.token.exp =>
                  /\ jres.outcome.kind = "HTTPException" /\ jres.outcome.status = 401
                  /\ jres.response.status = 401

\* an issued token refused after its expiry
C16_Witness ==
    /\ jres.kind = "users"
    /\ \E i \in issued : i.token = jres.token /\ now > i.at + 30
    /\ jres.response.status = 401

-----------------------------------------------------------------------------
(* Custom middlewares: custom_middlewares/custom_middleware.py *)

\* connections the event loop serves concurrently
Clients == {"c1", "c2"}

\* app.add_middleware puts the class at the front of the app's middleware
\* list, and the stack is built with the front of the list outermost: a
\* middleware added later wraps the ones added before it.
add_middleware(stack, cls) == <<cls>> \o stack

\* one thing a request made happen
MwEvent(who, what, r) ==
    [who |-> who, what |-> what, method |-> r.method, path |-> r.path, host |-> r.host]

\* request.client.host if request.client else "unknown"
client_host(r) == IF r.host = "" THEN "unknown" ELSE r.host

\* TimerMiddleware.dispatch up to its await call_next(request)
TimerMiddleware_before(r) == <<MwEvent("TimerMiddleware", "start timing", r)>>

\* TimerMiddleware.dispatch after call_next returned
TimerMiddleware_after(r) == <<MwEvent("TimerMiddleware", "log duration", r)>>

\* LoggingMiddleware.dispatch up to its await call_next(request)
LoggingMiddleware_before(r) ==
    <<[MwEvent("LoggingMiddleware", "log request", r) EXCEPT !.host = client_host(r)]>>

\* LoggingMiddleware.dispatch after call_next returned: it returns the response
LoggingMiddleware_after(r) == <<>>

dispatch_before(cls, r) ==
    IF cls = "TimerMiddleware" THEN TimerMiddleware_before(r) ELSE LoggingMiddleware_before(r)

dispatch_after(cls, r) ==
    IF cls = "TimerMiddleware" THEN TimerMiddleware_after(r) ELSE LoggingMiddleware_after(r)

\* @app.get('/hello') is the only route
Routed(r) == r.path = "/hello" /\ r.method = "GET"

MwResponse(status, message) == [status |-> status, message |-> message]

NoMwResponse == MwResponse(0, "")

\* the router: hello runs for GET /hello, another method on the path is
\* answered 405 and another path 404
hello_route(r) ==
    IF Routed(r) THEN MwResponse(200, "Hello World!")
    ELSE IF r.path = "/hello" THEN MwResponse(405, "") ELSE MwResponse(404, "")

Methods == {"GET", "POST"}
Paths == {"/hello", "/other"}
\* the peer address of the connection; "" when the server gives none
Hosts == {"127.0.0.1", ""}

IdleHello == [pc |-> "idle", method |-> "", path |-> "", host |-> "", depth |-> 0,
              events |-> <<>>, response |-> NoMwResponse]

\* 1. Request enters the application.
HelloReceive(c, method, path, host) ==
    /\ hreq[c].pc = "idle"
    /\ hreq' = [hreq EXCEPT ![c] = [IdleHello EXCEPT !.pc = "down", !.method = method,
                                         !.path = path, !.host = host, !.depth = 1]]
    /\ UNCHANGED <<user_middleware, not_mw>>

\* the next middleware of the stack runs up to its call_next
Descend(c) ==
    /\ hreq[c].pc = "down"
    /\ hreq[c].depth <= Len(user_middleware)
    /\ hreq' = [hreq EXCEPT ![c].events =
                        @ \o dispatch_before(user_middleware[hreq[c].depth], hreq[c]),
                    ![c].depth = @ + 1]
    /\ UNCHANGED <<user_middleware, not_mw>>

\* the innermost call_next reaches the router
RunRoute(c) ==
    /\ hreq[c].pc = "down"
    /\ hreq[c].depth = Len(user_middleware) + 1
    /\ hreq' = [hreq EXCEPT ![c].events =
                        IF Routed(hreq[c])
                        THEN Append(@, MwEvent("hello", "endpoint executes", hreq[c]))
                        ELSE @,
                    ![c].response = hello_route(hreq[c]),
                    ![c].pc = "up",
                    ![c].depth = @ - 1]
    /\ UNCHANGED <<user_middleware, not_mw>>

\* call_next returns in the middleware that called it
Ascend(c) ==
    /\ hreq[c].pc = "up"
    /\ hreq[c].depth >= 1
    /\ hreq' = [hreq EXCEPT ![c].events =
                        @ \o dispatch_after(user_middleware[hreq[c].depth], hreq[c]),
                    ![c].depth = @ - 1]
    /\ UNCHANGED <<user_middleware, not_mw>>

\* the outermost dispatch returned: the response goes to the client
HelloRespond(c) ==
    /\ hreq[c].pc = "up"
    /\ hreq[c].depth = 0
    /\ hreq' = [hreq EXCEPT ![c].events =
                        Append(@, MwEvent("server", "response returned", hreq[c])),
                    ![c].pc = "sent"]
    /\ UNCHANGED <<user_middleware, not_mw>>

HelloComplete(c) ==
    /\ hreq[c].pc = "sent"
    /\ hreq' = [hreq EXCEPT ![c] = IdleHello]
    /\ UNCHANGED <<user_middleware, not_mw>>

\* app.add_middleware(LoggingMiddleware); app.add_middleware(TimerMiddleware)
InitMw ==
    /\ user_middleware =
           add_middleware(add_middleware(<<>>, "LoggingMiddleware"), "TimerMiddleware")
    /\ hreq = [c \in Clients |-> IdleHello]

NextMw ==
    \E c \in Clients :
        \/ \E method \in Methods, path \in Paths, host \in Hosts :
               HelloReceive(c, method, path, host)
        \/ Descend(c)
        \/ RunRoute(c)
        \/ Ascend(c)
        \/ HelloRespond(c)
        \/ HelloComplete(c)

-----------------------------------------------------------------------------
(* Properties of the custom middlewares, checked under SpecMw *)

\* what happened to a request, in order
Flow(r) == [i \in 1..Len(r.events) |-> r.events[i].what]

\* the module docstring's Flow of Execution, steps 2 to 6
DocumentedFlow(r) ==
    IF Routed(r)
    THEN <<"log request", "start timing", "endpoint executes", "log duration",
           "response returned">>
    ELSE <<"log request", "start timing", "log duration", "response returned">>

\* C18: every request passes the middlewares in the documented order:
\* LoggingMiddleware logs the request, then TimerMiddleware starts timing,
\* then the endpoint executes, then TimerMiddleware logs the duration, and
\* then the response is returned to the client.
C18_DocumentedOrder ==
    \A c \in Clients : hreq[c].pc = "sent" => Flow(hreq[c]) = DocumentedFlow(hreq[c])

-----------------------------------------------------------------------------
(* OAuth2 password-flow demo: AdvancedFastapi/DependencyInjection/user_auth.py *)

\* a form field of POST /token, and a field the form does not have
FormStr(s) == [present |-> TRUE, s |-> s]
FormMissing == [present |-> FALSE, s |-> ""]

\* the Authorization header of a request, and a request without one
Authorization(scheme, param) == [present |-> TRUE, scheme |-> scheme, param |-> param]
NoAuthorization == [present |-> FALSE, scheme |-> "", param |-> ""]

\* str.lower() of the schemes used here
Lower(scheme) ==
    IF scheme = "Bearer" THEN "bearer" ELSE IF scheme = "Basic" THEN "basic" ELSE scheme

\* what a call gives: a returned value or a raised HTTPException
OReturn(token, name) ==
    [kind |-> "return", token |-> token, name |-> name, status |-> 0, detail |-> ""]
ORaise(status, detail) ==
    [kind |-> "HTTPException", token |-> "", name |-> "", status |-> status,
     detail |-> detail]
NoCall == [kind |-> "none", token |-> "", name |-> "", status |-> 0, detail |-> ""]

\* a response: its status code and the keys of its JSON body
OResponse(status, detail, access_token, token_type, username) ==
    [status |-> status, detail |-> detail, access_token |-> access_token,
     token_type |-> token_type, username |-> username]
NoOResponse == OResponse(0, "", "", "", "")

\* oauth2_scheme = OAuth2PasswordBearer(tokenUrl='token'): the parameter of a
\* Bearer Authorization header, 401 without one
oauth2_scheme(authorization) ==
    IF ~authorization.present \/ Lower(authorization.scheme) # "bearer"
    THEN ORaise(401, "Not authenticated")
    ELSE OReturn(authorization.param, "")

oauth_login(username, password) ==
    IF username = "john" /\ password = "pass123"
    THEN OResponse(200, "", "valid_token", "bearer", "")
    ELSE OResponse(400, "Invalid Credentials", "", "", "")

\* POST /token: Form(...) makes both fields required
post_token(username, password) ==
    IF ~username.present \/ ~password.present
    THEN OResponse(422, "Field required", "", "", "")
    ELSE oauth_login(username.s, password.s)

decode_token_any(token) == OReturn("", "john")

decode_token(token) ==
    IF token = "valid_token"
    THEN OReturn("", "john")
    ELSE ORaise(401, "Invalid Authentication Credentials")

\* get_current_user(token = Depends(oauth2_scheme))
get_current_user(authorization) ==
    LET token == oauth2_scheme(authorization)
    IN IF token.kind = "HTTPException" THEN token ELSE decode_token(token.token)

get_profile(user) == OResponse(200, "", "", "", user.name)

FormUsernames == {FormStr("john"), FormStr("John"), FormMissing}
FormPasswords == {FormStr("pass123"), FormStr("wrong"), FormMissing}
Authorizations ==
    {NoAuthorization, Authorization("Bearer", "valid_token"),
     Authorization("bearer", "valid_token"), Authorization("Bearer", "Valid_Token"),
     Authorization("Bearer", ""), Authorization("Basic", "valid_token")}

IdleOauth == [pc |-> "idle", kind |-> "none", username |-> FormMissing,
              password |-> FormMissing, authorization |-> NoAuthorization,
              user |-> NoCall, ran |-> FALSE, response |-> NoOResponse]

\* POST /token is answered
PostToken(w, username, password) ==
    /\ oreq[w].pc = "idle"
    /\ oreq' = [oreq EXCEPT ![w] = [IdleOauth EXCEPT !.pc = "done", !.kind = "token",
                                         !.username = username, !.password = password,
                                         !.response = post_token(username, password)]]
    /\ UNCHANGED not_oauth

\* GET /profile arrives
ProfileReceive(w, authorization) ==
    /\ oreq[w].pc = "idle"
    /\ oreq' = [oreq EXCEPT ![w] = [IdleOauth EXCEPT !.pc = "depends", !.kind = "profile",
                                         !.authorization = authorization]]
    /\ UNCHANGED not_oauth

\* the dependencies of get_profile are solved; an exception of a dependency
\* is answered without calling the endpoint
SolveDependencies(w) ==
    /\ oreq[w].pc = "depends"
    /\ LET user == get_current_user(oreq[w].authorization)
       IN oreq' = [oreq EXCEPT ![w].user = user,
                               ![w].pc = IF user.kind = "return" THEN "endpoint" ELSE "done",
                               ![w].response =
                                   IF user.kind = "return" THEN @
                                   ELSE OResponse(user.status, user.detail, "", "", "")]
    /\ UNCHANGED not_oauth

\* the body of get_profile runs
RunProfile(w) ==
    /\ oreq[w].pc = "endpoint"
    /\ oreq' = [oreq EXCEPT ![w].ran = TRUE,
                            ![w].response = get_profile(oreq[w].user),
                            ![w].pc = "done"]
    /\ UNCHANGED not_oauth

OauthComplete(w) ==
    /\ oreq[w].pc = "done"
    /\ oreq' = [oreq EXCEPT ![w] = IdleOauth]
    /\ UNCHANGED not_oauth

InitOauth == oreq = [w \in Workers |-> IdleOauth]

NextOauth ==
    \E w \in Workers :
        \/ \E username \in FormUsernames, password \in FormPasswords :
               PostToken(w, username, password)
        \/ \E authorization \in Authorizations : ProfileReceive(w, authorization)
        \/ SolveDependencies(w)
        \/ RunProfile(w)
        \/ OauthComplete(w)

-----------------------------------------------------------------------------
(* Properties of the OAuth2 demo, checked under SpecOauth *)

\* the request carries the bearer token 'valid_token'
BearsValidToken(r) ==
    /\ r.authorization.present
    /\ Lower(r.authorization.scheme) = "bearer"
    /\ r.authorization.param = "valid_token"

-----------------------------------------------------------------------------
(* Model serving: ml_model/schemas.py, predict.py, main.py *)
(* Features are in hundredths like every number of a payload; coefficients  *)
(* are in tenths, so a prediction is in thousandths and a price rounded to  *)
(* 2 decimals is back in hundredths.                                        *)

\* largest batch sent to POST /batch_prediction
MaxBatch == 3

FeatureNames == <<"longitude", "latitude", "housing_median_age", "total_rooms",
                  "total_bedrooms", "population", "households", "median_income">>

\* a float field of InputSchema
ml_float(v) == v.t = "number"

\* a float field with Field(..., gt=0)
ml_float_gt0(v) == v.t = "number" /\ v.n > 0

\* an int or StrictInt field with Field(..., gt=0), for whole numbers
ml_int_gt0(v) == v.t = "number" /\ v.n % 100 = 0 /\ v.n > 0

\* the body validates into an InputSchema
InputSchema(x) ==
    /\ ml_float(x.longitude)
    /\ ml_float(x.latitude)
    /\ ml_int_gt0(x.housing_median_age)
    /\ ml_int_gt0(x.total_rooms)
    /\ ml_int_gt0(x.total_bedrooms)
    /\ ml_int_gt0(x.population)
    /\ ml_int_gt0(x.households)
    /\ ml_float_gt0(x.median_income)

\* user_input.model_dump(): the field values by name
model_dump(x) == [f \in DOMAIN x |-> x[f].n]

\* np.array([[data["longitude"], ..., data["median_income"]]]): one row
FeatureRow(data) == [j \in 1..Len(FeatureNames) |-> data[FeatureNames[j]]]

RECURSIVE Dot(_, _, _)
Dot(coef, row, j) == IF j = 0 THEN 0 ELSE coef[j] * row[j] + Dot(coef, row, j - 1)

\* LinearRegression's decision function for one row
LinearPredict(row) == saved_model.intercept_ + Dot(saved_model.coef_, row, Len(row))

\* saved_model.predict(X): one prediction per row of X, in the order of the rows
saved_model_predict(X) == [i \in 1..Len(X) |-> LinearPredict(X[i])]

make_predictions(data) == saved_model_predict(<<FeatureRow(data)>>)[1]

Reverse(s) == [i \in 1..Len(s) |-> s[Len(s) + 1 - i]]

make_batch_predictions_reversed(data) ==
    saved_model_predict(Reverse([i \in 1..Len(data) |-> FeatureRow(data[i])]))

make_batch_predictions(data) ==
    saved_model_predict([i \in 1..Len(data) |-> FeatureRow(data[i])])

\* round(prediction, 2): thousandths to hundredths, a tie to the even digit
round2(p) ==
    LET q == p \div 10
        r == p % 10
    IN IF r < 5 THEN q ELSE IF r > 5 THEN q + 1 ELSE IF q % 2 = 0 THEN q ELSE q + 1

OutputSchema(predicted_price) == [predicted_price |-> predicted_price]

\* a response: kind says whether the body is one object, a list or an error
MlResponse(status, kind, items) == [status |-> status, kind |-> kind, items |-> items]
NoMlResponse == MlResponse(0, "none", <<>>)

\* POST /prediction
predict(user_input) ==
    IF ~InputSchema(user_input) THEN MlResponse(422, "error", <<>>)
    ELSE LET prediction == make_predictions(model_dump(user_input))
         IN MlResponse(200, "object", <<OutputSchema(round2(prediction))>>)

\* POST /batch_prediction; the array built from an empty list has no columns
\* and saved_model.predict raises for it
batch_predict(user_inputs) ==
    IF \E i \in 1..Len(user_inputs) : ~InputSchema(user_inputs[i])
    THEN MlResponse(422, "error", <<>>)
    ELSE IF Len(user_inputs) = 0 THEN MlResponse(500, "error", <<>>)
    ELSE LET predictions ==
                 make_batch_predictions([i \in 1..Len(user_inputs) |->
                                             model_dump(user_inputs[i])])
         IN MlResponse(200, "array",
                       [i \in 1..Len(predictions) |-> OutputSchema(round2(predictions[i]))])

Features(longitude, latitude, age, rooms, bedrooms, population, households, income) ==
    [longitude |-> JNum(longitude), latitude |-> JNum(latitude),
     housing_median_age |-> JNum(Hundredths(age)), total_rooms |-> JNum(Hundredths(rooms)),
     total_bedrooms |-> JNum(Hundredths(bedrooms)), population |-> JNum(Hundredths(population)),
     households |-> JNum(Hundredths(households)), median_income |-> JNum(income)]

\* the example request of the module docstring, two more blocks and a body
\* that fails validation (total_rooms is 0)
InputRows ==
    {Features(-12223, 3788, 41, 880, 129, 322, 126, 832),
     Features(-12222, 3786, 21, 7099, 1106, 2401, 1138, 830),
     Features(-11801, 3402, 5, 12, 3, 7, 2, 155),
     Features(-12223, 3788, 41, 0, 129, 322, 126, 832)}

Batches == UNION {[1..n -> InputRows] : n \in 0..MaxBatch}

\* fitted regressions: an intercept and one coefficient per feature
Models ==
    {[intercept_ |-> 3594024, coef_ |-> <<-43, -42, 11, -1, 10, -4, 5, 403>>],
     [intercept_ |-> 20002, coef_ |-> <<1, 0, 0, 0, 0, 0, 0, 3>>]}

NoMlRequest == [kind |-> "none", inputs |-> <<>>, response |-> NoMlResponse]

Predict(user_input) ==
    /\ mlreq.kind = "none"
    /\ mlreq' = [kind |-> "single", inputs |-> <<user_input>>,
                 response |-> predict(user_input)]
    /\ UNCHANGED <<saved_model, not_ml>>

BatchPredict(user_inputs) ==
    /\ mlreq.kind = "none"
    /\ mlreq' = [kind |-> "batch", inputs |-> user_inputs,
                 response |-> batch_predict(user_inputs)]
    /\ UNCHANGED <<saved_model, not_ml>>

MlDone ==
    /\ mlreq.kind # "none"
    /\ mlreq' = NoMlRequest
    /\ UNCHANGED <<saved_model, not_ml>>

\* saved_model = joblib.load("model.joblib")
InitMl ==
    /\ saved_model = [intercept_ |-> 20002, coef_ |-> <<1, 0, 0, 0, 0, 0, 0, 3>>]
    /\ mlreq = NoMlRequest

\* the same, for any of the fitted regressions
InitMlAny ==
    /\ saved_model \in Models
    /\ mlreq = NoMlRequest

NextMl ==
    \/ \E user_input \in InputRows : Predict(user_input)
    \/ \E user_inputs \in Batches : BatchPredict(user_inputs)
    \/ MlDone

-----------------------------------------------------------------------------
(* Properties of model serving, checked under SpecMl *)

-----------------------------------------------------------------------------
(* Specifications *)

\* the examples other than the loan-eligibility one, before their first request
InitOthers ==
    /\ InitCrud
    /\ InitJwt
    /\ InitMw
    /\ InitOauth

Init ==
    /\ rule_in = NoApplicant
    /\ rule_out = Pending
    /\ InitEndpoint
    /\ InitOthers
    /\ InitMl

Spec == Init /\ [][Next]_vars

InitRule ==
    /\ rule_in \in RuleInputs
    /\ rule_out = Pending
    /\ InitEndpoint
    /\ InitOthers
    /\ InitMl

SpecRule == InitRule /\ [][NextRule]_vars

SpecRaise == InitRule /\ [][NextRaise]_vars

SpecCrud == Init /\ [][NextCrud]_vars

SpecJwt == Init /\ [][NextJwt]_vars

SpecMw == Init /\ [][NextMw]_vars

SpecOauth == Init /\ [][NextOauth]_vars

InitMlSpec ==
    /\ rule_in = NoApplicant
    /\ rule_out = Pending
    /\ InitEndpoint
    /\ InitOthers
    /\ InitMlAny

SpecMl == InitMlSpec /\ [][NextMl]_vars

====
